---- MODULE Spec2Model ----
(***************************************************************************)
(* A model of zngur-generator/src/cpp.rs: the C++ header generator of      *)
(* zngur (dyn-api variant).  Six state machines share the module:          *)
(*                                                                         *)
(*   Spec      the run-time behaviour of the wrapper code that             *)
(*             CppTypeDefinition::emit writes for one owning type          *)
(*             (constructors, destructor, move/copy, the init-flag         *)
(*             customization points, marshaling, boundary wrappers);       *)
(*   SpecInit  the run-time behaviour of the emitted __zngur_dyn_api::init;*)
(*   SpecGen   the generator itself, CppFile::render, over a bounded       *)
(*             family of file models;                                      *)
(*   SpecParse the parser of type-reference text, CppType::from, over      *)
(*             every text up to a bounded length;                          *)
(*   SpecOwn   the wrapper of a type that is not Copy, with the managed    *)
(*             values it is handed traced through the operations;          *)
(*   SpecField the emitted field projections and their conversions to      *)
(*             references, over bounded chains of nested fields.           *)
(***************************************************************************)
EXTENDS Integers, Sequences, FiniteSets, TLC

VARIABLES
    T,        \* the CppTypeDefinition the wrapper was emitted for
    objs,     \* the wrapper objects of type T that exist in the host program
    slot,     \* one raw byte buffer on the boundary (uint8_t*)
    aborted,  \* the process is in `while (true) raise(SIGSEGV)`
    last,     \* the last operation run, its arguments, pre-state and events
    own,      \* the managed values handed to the host program, and their drops
    file,     \* the CppFile being rendered
    pc,       \* where CppFile::render is
    text,     \* State.text of the header: the items written so far, in order
    cpp_text, \* State.text of the source file
    lib,      \* the symbols dlsym finds in the loaded library
    api,      \* the fields of the __zngur_dyn_api object that have been assigned
    ipc,      \* __zngur_dyn_api::init: index of the next symbol to resolve
    ret,      \* __zngur_dyn_api::init: "running", "true" or "false"
    error_message, \* the symbol named in init's error message, or "none"
    calls,    \* per thread, the generated call sites it has run after init
    input,    \* the text handed to CppType::from
    parsed,   \* <<>> before the call, then the one result of CppType::from
    proj      \* a chain of field projections and the reference made from it

rtvars == <<T, objs, slot, aborted, last, own>>
genvars == <<file, pc, text, cpp_text>>
initvars == <<lib, api, ipc, ret, error_message, calls>>
parsevars == <<input, parsed>>
projvars == <<proj>>
vars == <<T, objs, slot, aborted, last, own, file, pc, text, cpp_text, lib, api, ipc, ret,
          error_message, calls, input, parsed, proj>>

(***************************************************************************)
(* Bounds.                                                                 *)
(***************************************************************************)
NObj == 2      \* wrapper objects of the type that can exist at once
MaxVal == 1    \* distinct byte patterns a value's storage can hold: 0..MaxVal

Obj == 1..NObj
Val == 0..MaxVal

(***************************************************************************)
(* The emitted class: storage, and `bool drop_flag` only if not Copy.      *)
(***************************************************************************)
\* variant: the flag member is written for every type
HasDropFlagAlways(t) == TRUE

HasDropFlag(t) == ~t.is_copy

NoObj == [alive |-> FALSE]

NewObj(flag, v) ==
    IF HasDropFlag(T)
    THEN [alive |-> TRUE, data |-> v, drop_flag |-> flag]
    ELSE [alive |-> TRUE, data |-> v]

IsHeap == T.layout = "HeapAllocated"

\* (alloc_heap, free_heap, copy_data) of the layout
alloc_heap == IF IsHeap THEN <<"alloc">> ELSE <<>>
free_heap == IF IsHeap THEN <<"free">> ELSE <<>>
copy_data_events == IF IsHeap THEN <<"size_fn", "memcpy">> ELSE <<"memcpy">>

(***************************************************************************)
(* The generated functions, as transformers of a machine state             *)
(*   m = [objs, slot, aborted, ev]                                         *)
(* where ev is the sequence of external calls made so far in the current   *)
(* operation.  Once m.aborted holds nothing more happens.                  *)
(***************************************************************************)
Machine == [objs |-> objs, slot |-> slot, aborted |-> FALSE, ev |-> <<>>]

Contains(seq, x) == \E k \in 1..Len(seq) : seq[k] = x

Emit(m, es) == [m EXCEPT !.ev = @ \o es]

\* `if (drop_flag) { drop_in_place(&data[0]); }`
drop_if_flag(m, o) ==
    IF m.objs[o].drop_flag THEN Emit(m, <<"drop">>) ELSE m

\* this->data = other.data;  /  memcpy(this->data, other.data, size_fn());
copy_data(m, d, s) ==
    Emit([m EXCEPT !.objs[d].data = m.objs[s].data], copy_data_events)

\* __zngur_internal_check_init< T >
__zngur_internal_check_init(m, o) ==
    IF T.is_copy THEN m
    ELSE IF ~m.objs[o].drop_flag
         THEN [Emit(m, <<"abort">>) EXCEPT !.aborted = TRUE]
         ELSE m

\* __zngur_internal_assume_init< T >
__zngur_internal_assume_init(m, o) ==
    IF T.is_copy THEN m
    ELSE [m EXCEPT !.objs[o].drop_flag = TRUE]

\* __zngur_internal_assume_deinit< T >
__zngur_internal_assume_deinit(m, o) ==
    IF T.is_copy THEN m
    ELSE LET m1 == __zngur_internal_check_init(m, o)
         IN  IF m1.aborted THEN m1
             ELSE [m1 EXCEPT !.objs[o].drop_flag = FALSE]

\* T()  : default constructor; the storage holds indeterminate bytes v
default_ctor(m, o, v) ==
    Emit([m EXCEPT !.objs[o] = NewObj(FALSE, v)], alloc_heap)

\* variant: the destructor drops without looking at the flag
dtor_always_drops(m, o) ==
    [Emit(Emit(m, <<"drop">>), free_heap) EXCEPT !.objs[o] = NoObj]

\* ~T()
dtor(m, o) ==
    LET m1 == IF T.is_copy THEN m ELSE drop_if_flag(m, o)
        m2 == Emit(m1, free_heap)
    IN  [m2 EXCEPT !.objs[o] = NoObj]

\* variant: the destination's previous value is overwritten without a drop
move_assign_without_drop(m, d, s) ==
    IF d # s
    THEN LET m2 == [m EXCEPT !.objs[d].drop_flag = m.objs[s].drop_flag]
             m3 == copy_data(m2, d, s)
         IN  [m3 EXCEPT !.objs[s].drop_flag = FALSE]
    ELSE m

\* variant: the source keeps its flag after the move
move_assign_keeps_source(m, d, s) ==
    IF d # s
    THEN LET m1 == drop_if_flag(m, d)
             m2 == [m1 EXCEPT !.objs[d].drop_flag = m1.objs[s].drop_flag]
         IN  copy_data(m2, d, s)
    ELSE m

\* T& operator=(T&& other), non-Copy
move_assign(m, d, s) ==
    IF d # s
    THEN LET m1 == drop_if_flag(m, d)
             m2 == [m1 EXCEPT !.objs[d].drop_flag = m1.objs[s].drop_flag]
             m3 == copy_data(m2, d, s)
         IN  [m3 EXCEPT !.objs[s].drop_flag = FALSE]
    ELSE m

\* T(T&& other), non-Copy: drop_flag(false), alloc_heap, *this = move(other)
move_ctor(m, d, s, v) ==
    move_assign(default_ctor(m, d, v), d, s)

\* Copy types: T(const T&), T(T&&): alloc_heap, copy_data
copy_ctor(m, d, s, v) == copy_data(default_ctor(m, d, v), d, s)

\* Copy types: operator=(const T&), operator=(T&&): copy_data
copy_assign(m, d, s) == copy_data(m, d, s)

\* __zngur_internal_move_to_rust< T >(dst, t): memcpy to the slot, then
\* __zngur_internal_assume_deinit(t)
__zngur_internal_move_to_rust(m, o) ==
    LET m1 == Emit([m EXCEPT !.slot = m.objs[o].data], copy_data_events)
    IN  __zngur_internal_assume_deinit(m1, o)

\* variant: the unmarshaled value is not marked initialized
move_from_rust_no_assume_init(m, d, v) ==
    LET m1 == default_ctor(m, d, v)
    IN  Emit([m1 EXCEPT !.objs[d].data = m1.slot], copy_data_events)

\* __zngur_internal_move_from_rust< T >(src): T t; assume_init(t); memcpy; return t
__zngur_internal_move_from_rust(m, d, v) ==
    LET m1 == default_ctor(m, d, v)
        m2 == __zngur_internal_assume_init(m1, d)
    IN  Emit([m2 EXCEPT !.objs[d].data = m2.slot], copy_data_events)

\* Ref(const T& t) / RefMut(const T& t): check_init, then store the address
ref_from_owner(m, o) ==
    LET m1 == __zngur_internal_check_init(m, o)
    IN  IF m1.aborted THEN m1 ELSE Emit(m1, <<"borrow">>)

\* {deinits}: __zngur_internal_assume_deinit(i0); ... in order
RECURSIVE deinits(_, _)
deinits(m, ins) ==
    IF ins = <<>> \/ m.aborted THEN m
    ELSE deinits(__zngur_internal_assume_deinit(m, Head(ins)), Tail(ins))

\* the boundary symbol writes its result r to the output slot
rust_link(m, out, r) ==
    IF m.aborted THEN m
    ELSE Emit([m EXCEPT !.objs[out].data = r], <<"link">>)

\* CppFnSig::emit_cpp_def: T o{}; deinits; api->link(.., data_ptr(o));
\* assume_init(o); return o;
cpp_def(m, ins, out, v, r) ==
    LET m1 == default_ctor(m, out, v)
        m2 == deinits(m1, ins)
        m3 == rust_link(m2, out, r)
    IN  IF m3.aborted THEN m3 ELSE __zngur_internal_assume_init(m3, out)

\* CppFnSig::emit_cpp_def with panic_to_exception, when the boundary symbol
\* panics: T o{}; deinits; api->link(..) writes no output; the panic handler
\* finds the panic, takes it and throws ::rust::Panic; the unwinding runs ~T()
\* on o.  `assume_init(o)` is not reached.
cpp_def_throws(m, ins, out, v) ==
    LET m1 == default_ctor(m, out, v)
        m2 == deinits(m1, ins)
    IN  IF m2.aborted THEN m2
        ELSE dtor(Emit(m2, <<"link", "detect_panic", "take_panic", "throw">>), out)

\* the emitted constructor T::T(api, i0, ..): no member initializer runs, so
\* the flag and (HeapAllocated) the data pointer start indeterminate;
\* assume_init(*this); link(.., data_ptr(*this)); deinits.  With a
\* HeapAllocated layout the symbol writes through the indeterminate pointer:
\* the write either crashes the process or lands somewhere (ub).
constructor(m, ins, out, v, f, r, ub) ==
    LET m1 == [m EXCEPT !.objs[out] = NewObj(f, v)]
        m2 == __zngur_internal_assume_init(m1, out)
        m3 == rust_link(m2, out, r)
        m4 == IF IsHeap /\ ub = "crash"
              THEN [Emit(m3, <<"crash">>) EXCEPT !.aborted = TRUE]
              ELSE m3
    IN  deinits(m4, ins)

(***************************************************************************)
(* Init and the operations of the host program.                            *)
(***************************************************************************)
Layouts == {"StackAllocated", "HeapAllocated"}

NoMarshal == [from |-> 0, data |-> 0]

\* The bytes of a value of a type that is not Copy identify the managed value
\* they stand for.  own traces, when own.on, the values handed over:
\*   fresh    the last value the managed side wrote to the slot (0: none yet)
\*   reads    how often the slot's present content was unmarshaled (0, 1, 2)
\*   once     no content of the slot was unmarshaled twice so far
\*   dropped  the values drop_in_place was called on
\*   twice    drop_in_place was called a second time on some value
NotTraced ==
    [on |-> FALSE, fresh |-> 0, reads |-> 0, once |-> TRUE, dropped |-> {},
     twice |-> FALSE]

\* the parts of the state a specification does not use
RtIdle ==
    /\ T = [is_copy |-> TRUE, layout |-> "StackAllocated"]
    /\ objs = <<>> /\ slot = 0 /\ aborted = FALSE /\ last = <<>> /\ own = <<>>

GenIdle == file = <<>> /\ pc = "idle" /\ text = <<>> /\ cpp_text = <<>>

InitIdle ==
    /\ lib = {} /\ api = {} /\ ipc = 0 /\ ret = "idle" /\ error_message = <<>>
    /\ calls = <<>>

ParseIdle == input = <<>> /\ parsed = <<>>

ProjIdle == proj = <<>>

Init ==
    /\ T \in [is_copy : BOOLEAN, layout : Layouts]
    /\ objs = [o \in Obj |-> NoObj]
    /\ slot \in Val
    /\ aborted = FALSE
    /\ last = [op |-> "none", dst |-> 0, src |-> 0, ins |-> <<>>, pre |-> objs,
               preslot |-> slot, ev |-> <<>>, marshal |-> NoMarshal]
    /\ own = NotTraced
    /\ GenIdle /\ InitIdle /\ ParseIdle /\ ProjIdle

\* last.marshal remembers, across one following move_from_rust, which object a
\* completed move_to_rust took the slot's bytes from, and what they were
NextMarshal(m, op, s) ==
    IF op = "move_to_rust" /\ ~m.aborted
    THEN [from |-> s, data |-> objs[s].data]
    ELSE IF op = "move_from_rust" /\ last.op = "move_to_rust"
         THEN last.marshal
         ELSE NoMarshal

\* drop_in_place runs on the bytes object d held when the operation began
TraceOwn(m, op, d) ==
    IF ~own.on THEN own
    ELSE [own EXCEPT
            !.reads = IF op = "move_from_rust" THEN (IF @ < 2 THEN @ + 1 ELSE @)
                      ELSE IF op = "move_to_rust" THEN 0
                      ELSE @,
            !.once = @ /\ ~(op = "move_from_rust" /\ own.reads >= 1),
            !.dropped = IF Contains(m.ev, "drop") THEN @ \cup {objs[d].data} ELSE @,
            !.twice = @ \/ (Contains(m.ev, "drop") /\ objs[d].data \in own.dropped)]

Commit(m, op, d, s, ins) ==
    /\ objs' = m.objs
    /\ own' = TraceOwn(m, op, d)
    /\ slot' = m.slot
    /\ aborted' = m.aborted
    /\ last' = [op |-> op, dst |-> d, src |-> s, ins |-> ins, pre |-> objs,
                preslot |-> slot, ev |-> m.ev, marshal |-> NextMarshal(m, op, s)]
    /\ UNCHANGED <<T, genvars, initvars, parsevars, projvars>>

Alive(o) == objs[o].alive

DefaultConstruct ==
    \E o \in Obj, v \in Val :
        /\ ~aborted /\ ~Alive(o)
        /\ Commit(default_ctor(Machine, o, v), "default_ctor", o, 0, <<>>)

Destruct ==
    \E o \in Obj :
        /\ ~aborted /\ Alive(o)
        /\ Commit(dtor(Machine, o), "dtor", o, 0, <<>>)

MoveConstruct ==
    \E d \in Obj, s \in Obj, v \in Val :
        /\ ~aborted /\ ~Alive(d) /\ Alive(s)
        /\ IF T.is_copy
           THEN Commit(copy_ctor(Machine, d, s, v), "move_ctor", d, s, <<>>)
           ELSE Commit(move_ctor(Machine, d, s, v), "move_ctor", d, s, <<>>)

MoveAssign ==
    \E d \in Obj, s \in Obj :
        /\ ~aborted /\ Alive(d) /\ Alive(s)
        /\ IF T.is_copy
           THEN Commit(copy_assign(Machine, d, s), "move_assign", d, s, <<>>)
           ELSE Commit(move_assign(Machine, d, s), "move_assign", d, s, <<>>)

\* deleted for non-Copy types
CopyConstruct ==
    \E d \in Obj, s \in Obj, v \in Val :
        /\ ~aborted /\ T.is_copy /\ ~Alive(d) /\ Alive(s)
        /\ Commit(copy_ctor(Machine, d, s, v), "copy_ctor", d, s, <<>>)

CopyAssign ==
    \E d \in Obj, s \in Obj :
        /\ ~aborted /\ T.is_copy /\ Alive(d) /\ Alive(s)
        /\ Commit(copy_assign(Machine, d, s), "copy_assign", d, s, <<>>)

CheckInit ==
    \E o \in Obj :
        /\ ~aborted /\ Alive(o)
        /\ Commit(__zngur_internal_check_init(Machine, o), "check_init", o, 0, <<>>)

AssumeInit ==
    \E o \in Obj :
        /\ ~aborted /\ Alive(o)
        /\ Commit(__zngur_internal_assume_init(Machine, o), "assume_init", o, 0, <<>>)

AssumeDeinit ==
    \E o \in Obj :
        /\ ~aborted /\ Alive(o)
        /\ Commit(__zngur_internal_assume_deinit(Machine, o), "assume_deinit", o, 0, <<>>)

MoveToRust ==
    \E o \in Obj :
        /\ ~aborted /\ Alive(o)
        /\ Commit(__zngur_internal_move_to_rust(Machine, o), "move_to_rust", 0, o, <<>>)

MoveFromRust ==
    \E d \in Obj, v \in Val :
        /\ ~aborted /\ ~Alive(d)
        /\ Commit(__zngur_internal_move_from_rust(Machine, d, v), "move_from_rust", d, 0, <<>>)

Borrow ==
    \E o \in Obj :
        /\ ~aborted /\ Alive(o)
        /\ Commit(ref_from_owner(Machine, o), "borrow", 0, o, <<>>)

\* the by-value inputs of one call are distinct live objects
InputLists(out) ==
    {<<>>} \cup {<<i>> : i \in {x \in Obj \ {out} : Alive(x)}}
           \cup {<<i, j>> : <<i, j>> \in
                    {p \in (Obj \ {out}) \X (Obj \ {out}) :
                        p[1] # p[2] /\ Alive(p[1]) /\ Alive(p[2])}}

CallWrapper ==
    \E out \in Obj, v \in Val, r \in Val :
        /\ ~aborted /\ ~Alive(out)
        /\ \E ins \in InputLists(out) :
              Commit(cpp_def(Machine, ins, out, v, r), "cpp_def", out, 0, ins)

\* the same call when the file is rendered with panic_to_exception and the
\* boundary symbol panics
CallWrapperPanics ==
    \E out \in Obj, v \in Val :
        /\ ~aborted /\ ~Alive(out)
        /\ \E ins \in InputLists(out) :
              Commit(cpp_def_throws(Machine, ins, out, v), "cpp_def_throws", out, 0, ins)

CallConstructor ==
    \E out \in Obj, v \in Val, f \in BOOLEAN, r \in Val, ub \in {"crash", "continue"} :
        /\ ~aborted /\ ~Alive(out)
        /\ \E ins \in InputLists(out) :
              Commit(constructor(Machine, ins, out, v, f, r, ub), "constructor", out, 0, ins)

Next ==
    \/ DefaultConstruct
    \/ Destruct
    \/ MoveConstruct
    \/ MoveAssign
    \/ CopyConstruct
    \/ CopyAssign
    \/ CheckInit
    \/ AssumeInit
    \/ AssumeDeinit
    \/ MoveToRust
    \/ MoveFromRust
    \/ Borrow
    \/ CallWrapper
    \/ CallWrapperPanics
    \/ CallConstructor

Spec == Init /\ [][Next]_vars

(***************************************************************************)
(* The wrapper of a type that is not Copy, with the values traced: the     *)
(* six operations on wrappers, and the managed side handing over values.   *)
(***************************************************************************)
MaxFresh == 1   \* values the managed side writes to the slot: 1..MaxFresh

InitOwn ==
    /\ T \in [is_copy : {FALSE}, layout : Layouts]
    /\ objs = [o \in Obj |-> NoObj]
    /\ slot = 0
    /\ aborted = FALSE
    /\ last = [op |-> "none", dst |-> 0, src |-> 0, ins |-> <<>>, pre |-> objs,
               preslot |-> slot, ev |-> <<>>, marshal |-> NoMarshal]
    /\ own = [NotTraced EXCEPT !.on = TRUE]
    /\ GenIdle /\ InitIdle /\ ParseIdle /\ ProjIdle

\* the managed side writes a value it has not handed over before to the slot
\* (the uint8_t* buffer __zngur_internal_move_from_rust reads)
Produce ==
    /\ ~aborted /\ own.fresh < MaxFresh
    /\ slot' = own.fresh + 1
    /\ own' = [own EXCEPT !.fresh = @ + 1, !.reads = 0]
    /\ last' = [op |-> "produce", dst |-> 0, src |-> 0, ins |-> <<>>, pre |-> objs,
                preslot |-> slot, ev |-> <<>>, marshal |-> NoMarshal]
    /\ UNCHANGED <<T, objs, aborted, genvars, initvars, parsevars, projvars>>

\* a sequence of operations is followed up to the first time a content of
\* the slot is unmarshaled again
NextOwn ==
    \/ own.once /\ DefaultConstruct
    \/ own.once /\ MoveFromRust
    \/ own.once /\ MoveConstruct
    \/ own.once /\ MoveAssign
    \/ own.once /\ MoveToRust
    \/ own.once /\ Destruct
    \/ own.once /\ Produce

SpecOwn == InitOwn /\ [][NextOwn]_vars

(***************************************************************************)
(* The generator: CppFile::render over a bounded family of file models.    *)
(* The header text is kept as the sequence of the items written to it.     *)
(***************************************************************************)
MaxInputs == 1   \* inputs of a signature besides the receiver: 0..MaxInputs

AllLayouts == {"StackAllocated", "HeapAllocated", "OnlyByRef"}
Receivers == <<"Static", "Ref(Not)", "Ref(Mut)", "Move">>

RECURSIVE Flatten(_)
Flatten(ss) == IF ss = <<>> THEN <<>> ELSE Head(ss) \o Flatten(Tail(ss))

Pick(order, set) == SelectSeq(order, LAMBDA x : x \in set)

\* the type of the receiver, the first input of a non-static method
ReceiverInput(kind) ==
    CASE kind = "Static" -> <<>>
      [] kind = "Ref(Not)" -> <<"Ref<T>">>
      [] kind = "Ref(Mut)" -> <<"RefMut<T>">>
      [] kind = "Move" -> <<"T">>

CppFnSig(link, inputs) == [rust_link_name |-> link, inputs |-> inputs, output |-> "O"]

CppMethod(kind, n) ==
    [name |-> kind, kind |-> kind,
     sig |-> CppFnSig(<<"T", kind>>, ReceiverInput(kind) \o [k \in 1..n |-> "A"])]

\* one type T; every signature of the file has n inputs besides the receiver.
\* A type that is not Copy has Drop.
CppFile(layout, wk, kinds, has_ctor, has_fn, traits, panic, n) ==
    [type_defs |-> << [ty |-> "T", layout |-> layout,
                       size |-> IF layout = "StackAllocated" THEN 1 ELSE 0,
                       align |-> IF layout = "StackAllocated" THEN 1 ELSE 0,
                       wellknown_traits |->
                           Pick(<<"Debug", "Unsized", "Copy", "Drop">>,
                                wk \cup (IF "Copy" \in wk THEN {} ELSE {"Drop"})),
                       methods |-> [k \in 1..Len(Pick(Receivers, kinds)) |->
                                       CppMethod(Pick(Receivers, kinds)[k], n)],
                       constructors |->
                           IF has_ctor
                           THEN <<CppFnSig(<<"T", "new">>, [k \in 1..n |-> "A"])>>
                           ELSE <<>>,
                       from_trait |-> IF traits = <<>> THEN "None" ELSE traits[1]] >>,
     fn_defs |-> IF has_fn
                 THEN <<[name |-> "f", sig |-> CppFnSig(<<"f">>, [k \in 1..n |-> "A"])]>>
                 ELSE <<>>,
     trait_defs |-> traits,
     panic_to_exception |-> panic]

\* trait_defs is a HashMap: a sequence here is the map in one of the orders
\* its iteration can take
TraitSets == {<<>>, <<"Fn">>, <<"Normal">>, <<"Fn", "Normal">>, <<"Normal", "Fn">>}

\* the signature of a Fn trait, the methods of a Normal trait
TraitMethods(tr) ==
    IF tr = "Fn"
    THEN <<[name |-> "call", rust_link_name |-> <<"trait", "link_name">>,
            inputs |-> <<"A">>, output |-> "O"]>>
    ELSE <<[name |-> "m0", rust_link_name |-> <<"trait", "m0">>,
            inputs |-> <<>>, output |-> "O"],
           [name |-> "m1", rust_link_name |-> <<"trait", "m1">>,
            inputs |-> <<"A">>, output |-> "O"]>>

\* the {size, align} of StackAllocated, one of two; the other layouts carry none
StackShape(layout, wide) ==
    IF layout # "StackAllocated" THEN [size |-> 0, align |-> 0]
    ELSE IF wide THEN [size |-> 12, align |-> 4]
    ELSE [size |-> 1, align |-> 1]

WithShape(f, sh) ==
    [f EXCEPT !.type_defs[1].size = sh.size, !.type_defs[1].align = sh.align]

FileModels ==
    { WithShape(CppFile(l, wk, ks, c, f, t, p, n), StackShape(l, w)) :
        l \in AllLayouts, wk \in SUBSET {"Debug", "Unsized", "Copy"},
        ks \in SUBSET {"Static", "Ref(Not)", "Ref(Mut)", "Move"},
        c \in BOOLEAN, f \in BOOLEAN, t \in TraitSets, p \in BOOLEAN,
        n \in 0..MaxInputs, w \in BOOLEAN }

(* ---- parameter lists ---- *)
\* "__zngur_dyn_api* api" or "__zngur_dyn_api* api, ", by the count the caller tests
dyn_api_def(k) ==
    IF k = 0 THEN <<"__zngur_dyn_api* api">> ELSE <<"__zngur_dyn_api* api", ",">>

\* .map(|(n, ty)| format!("{ty} i{n}")).join(", ")
RECURSIVE input_defs(_)
input_defs(tys) ==
    IF tys = <<>> THEN <<>>
    ELSE IF Len(tys) = 1 THEN <<tys[1]>>
    ELSE <<tys[1], ",">> \o input_defs(Tail(tys))

\* the parameters a C++ compiler reads from the text: the runs between commas
RECURSIVE SplitParams(_, _)
SplitParams(tokens, cur) ==
    IF tokens = <<>> THEN (IF cur = <<>> THEN <<>> ELSE <<cur>>)
    ELSE IF Head(tokens) = "," THEN <<cur>> \o SplitParams(Tail(tokens), <<>>)
    ELSE SplitParams(Tail(tokens), Append(cur, Head(tokens)))

skip1(seq) == IF seq = <<>> THEN <<>> ELSE Tail(seq)

saturating_sub1(n) == IF n = 0 THEN 0 ELSE n - 1

(* ---- items ---- *)
Decl(view, name, tokens) ==
    [item |-> "decl", view |-> view, method |-> name,
     params |-> SplitParams(tokens, <<>>), noexcept |-> TRUE]

Def(view, name, tokens, link, body, args) ==
    [item |-> "def", view |-> view, method |-> name,
     params |-> SplitParams(tokens, <<>>), link |-> link, body |-> body,
     args |-> args, noexcept |-> TRUE]

\* State::panic_handler
panic_handler(panic) == IF panic THEN <<"panic_handler">> ELSE <<>>

\* CppFnSig::emit_rust_link_decl
emit_rust_link_decl(sig) ==
    <<[item |-> "link_decl", name |-> sig.rust_link_name, ret |-> "void",
       params |-> [k \in 1..(Len(sig.inputs) + 1) |-> "uint8_t*"],
       noexcept |-> TRUE]>>

ExternDecl(name, r, ps) ==
    [item |-> "link_decl", name |-> name, ret |-> r, params |-> ps, noexcept |-> FALSE]

\* CppFnSig::emit_cpp_header
emit_cpp_header(sig, name) ==
    <<Decl("static", name, dyn_api_def(Len(sig.inputs)) \o input_defs(sig.inputs))>>

\* CppFnSig::emit_cpp_def
emit_cpp_def(sig, view, name, panic) ==
    <<Def(view, name, dyn_api_def(Len(sig.inputs)) \o input_defs(sig.inputs),
          sig.rust_link_name,
          <<"o{}", "deinits", "api->link">> \o panic_handler(panic)
              \o <<"assume_init(o)", "return o">>,
          <<>>)>>

\* the views a Ref(m) method is defined on
ref_kinds_all(m) == <<"Ref", "RefMut">>

ref_kinds(m) == IF m = "Ref(Mut)" THEN <<"RefMut">> ELSE <<"Ref", "RefMut">>

field_kinds(m) ==
    IF m = "Ref(Mut)" THEN <<"FieldOwned", "FieldRefMut">>
    ELSE <<"FieldOwned", "FieldRefMut", "FieldRef">>

IsRef(kind) == kind \in {"Ref(Not)", "Ref(Mut)"}

\* the `continue` of the two declaration loops
skip_decl(kind, view) == kind = "Ref(Mut)" /\ view \in {"Ref", "FieldRef"}

(* ---- CppTypeDefinition ---- *)
\* CppTypeDefinition::get_link_names
get_link_names(td) ==
    [k \in 1..Len(td.methods) |-> td.methods[k].sig.rust_link_name]
    \o [k \in 1..Len(td.constructors) |-> td.constructors[k].rust_link_name]
    \o (IF td.layout = "HeapAllocated"
        THEN << <<"T", "size_fn">>, <<"T", "alloc_fn">>, <<"T", "free_fn">> >>
        ELSE <<>>)
    \o Flatten([k \in 1..Len(td.wellknown_traits) |->
          CASE td.wellknown_traits[k] = "Debug" ->
                  << <<"T", "pretty_print">>, <<"T", "debug_print">> >>
            [] td.wellknown_traits[k] = "Drop" -> << <<"T", "drop_in_place">> >>
            [] OTHER -> <<>>])

\* CppTypeDefinition::emit_rust_links
td_emit_rust_links(td) ==
    Flatten([k \in 1..Len(td.methods) |-> emit_rust_link_decl(td.methods[k].sig)])
    \o Flatten([k \in 1..Len(td.constructors) |-> emit_rust_link_decl(td.constructors[k])])
    \o (IF td.layout = "HeapAllocated"
        THEN <<ExternDecl(<<"T", "size_fn">>, "size_t", <<>>),
               ExternDecl(<<"T", "alloc_fn">>, "uint8_t*", <<>>),
               ExternDecl(<<"T", "free_fn">>, "void", <<"uint8_t*">>)>>
        ELSE <<>>)
    \o Flatten([k \in 1..Len(td.wellknown_traits) |->
          CASE td.wellknown_traits[k] = "Debug" ->
                  <<ExternDecl(<<"T", "pretty_print">>, "void", <<"uint8_t*">>),
                    ExternDecl(<<"T", "debug_print">>, "void", <<"uint8_t*">>)>>
            [] td.wellknown_traits[k] = "Drop" ->
                  <<ExternDecl(<<"T", "drop_in_place">>, "void", <<"uint8_t*">>)>>
            [] OTHER -> <<>>])

\* CppTraitDefinition::emit_rust_links
trait_emit_rust_links(tr) ==
    IF tr = "Fn"
    THEN <<ExternDecl(<<"trait", "link_name">>, "void",
                      <<"uint8_t*", "destructor", "call", "uint8_t*">>)>>
    ELSE <<ExternDecl(<<"trait", "link_name">>, "void",
                      <<"uint8_t*", "destructor", "uint8_t*">>),
           ExternDecl(<<"trait", "link_name_ref">>, "void", <<"uint8_t*", "uint8_t*">>)>>

\* CppTraitDefinition::emit: nothing for Fn; for Normal the class with a
\* virtual destructor and `virtual {output} {name}({input}) = 0;` per method
trait_emit(tr) ==
    IF tr = "Fn" THEN <<>>
    ELSE <<[item |-> "interface", as_ty |-> tr, virtual_dtor |-> TRUE,
            methods |-> [k \in 1..Len(TraitMethods(tr)) |->
                [name |-> TraitMethods(tr)[k].name,
                 output |-> TraitMethods(tr)[k].output,
                 params |-> SplitParams(input_defs(TraitMethods(tr)[k].inputs), <<>>),
                 pure_virtual |-> TRUE]]]>>

\* CppTraitDefinition::emit_cpp: nothing for Fn; for Normal one function per
\* method: void {rust_link_name}(uint8_t* data, uint8_t* i0, .., uint8_t* o)
trait_emit_cpp(tr) ==
    IF tr = "Fn" THEN <<>>
    ELSE [k \in 1..Len(TraitMethods(tr)) |->
            [item |-> "trampoline", name |-> TraitMethods(tr)[k].rust_link_name,
             method |-> TraitMethods(tr)[k].name,
             params |-> [n \in 1..(Len(TraitMethods(tr)[k].inputs) + 2) |-> "uint8_t*"],
             body |-> <<"data_typed = reinterpret_cast(data)">>
                      \o [n \in 1..Len(TraitMethods(tr)[k].inputs) |-> "move_from_rust(i)"]
                      \o <<"oo = data_typed->method", "move_to_rust(o, oo)">>]]

\* emit_cpp_fn_defs, `match self.from_trait.and_then(|k| traits.get(k))`:
\* make_box from a std::function (Fn) or from an implementation (Normal).
\* The boundary symbol is called by its name, with the payload, the thunk
\* that deletes it and (Fn) the thunk that calls it.
make_box(td, traits) ==
    IF ~Contains(traits, td.from_trait) THEN <<>>
    ELSE IF td.from_trait = "Fn"
    THEN <<[item |-> "make_box", trait |-> "Fn",
            body |-> <<"data = new std::function(f)", "o", "assume_init(o)", "link",
                       "return o">>,
            link |-> TraitMethods("Fn")[1].rust_link_name,
            destructor |-> <<"delete data">>,
            call |-> [n \in 1..Len(TraitMethods("Fn")[1].inputs) |-> "move_from_rust(i)"]
                     \o <<"oo = (*dd)", "move_to_rust(o, oo)">>]>>
    ELSE <<[item |-> "make_box", trait |-> "Normal",
            body |-> <<"data = new T(args)", "dynamic_cast", "o", "assume_init(o)",
                       "link", "return o">>,
            link |-> <<"trait", "link_name">>,
            destructor |-> <<"delete data">>,
            call |-> <<>>]>>

\* a size or length expression of the emitted code: "call" of a function,
\* "const" literal, "size_of" (__zngur_internal_size_of<T>()), or "none"
SizeExpr(kind, callee, value) == [kind |-> kind, callee |-> callee, value |-> value]

\* a specialization of one of the customization points, with its statements
InitFn(fn, view, body) == [item |-> "init_fn", fn |-> fn, view |-> view, body |-> body]

\* the three no-op specializations written after a Ref / RefMut class
ref_init_body_checks_flag(fn) ==
    IF fn = "check_init" THEN <<"if (!t.drop_flag) abort">> ELSE <<>>

ref_init_body(fn) == <<>>

\* `size = if is_unsized { 16 } else { 8 }`
ref_size_always_8(is_unsized) == 8

ref_size(is_unsized) == IF is_unsized THEN 16 ELSE 8

\* `::std::array<size_t, 2> data` or `size_t data`
ref_words(is_unsized) == IF is_unsized THEN 2 ELSE 1

\* variant: RefMut also gets the constructor from FieldRef
ref_conversions_from_any_field(ref_kind, is_unsized) ==
    (IF ref_kind = "Ref" THEN <<"RefMut">> ELSE <<>>)
    \o (IF is_unsized THEN <<>> ELSE <<"FieldOwned", "FieldRef", "FieldRefMut">>)

\* the views a Ref / RefMut has a converting constructor from
ref_conversions(ref_kind, is_unsized) ==
    IF ref_kind = "Ref"
    THEN <<"RefMut">>
         \o (IF is_unsized THEN <<>> ELSE <<"FieldOwned", "FieldRef", "FieldRefMut">>)
    ELSE IF is_unsized THEN <<>> ELSE <<"FieldOwned", "FieldRefMut">>

\* the constructors of a Ref / RefMut class besides the conversions
ref_members(td) ==
    <<"default_ctor">>
    \o (IF ~Contains(td.wellknown_traits, "Unsized") /\ td.layout # "OnlyByRef"
        THEN <<"from_owner">> ELSE <<>>)

\* the method declarations inside a Ref / RefMut specialization
ref_method_decls(td, ref_kind) ==
    Flatten([k \in 1..Len(td.methods) |->
        IF IsRef(td.methods[k].kind) /\ ~skip_decl(td.methods[k].kind, ref_kind)
        THEN <<Decl(ref_kind, td.methods[k].name,
                    dyn_api_def(saturating_sub1(Len(td.methods[k].sig.inputs)))
                        \o input_defs(skip1(td.methods[k].sig.inputs)))>>
        ELSE <<>>])

\* CppTypeDefinition::emit_ref_specialization
emit_ref_specialization(td) ==
    Flatten([r \in 1..2 |->
        <<[item |-> "class", view |-> <<"RefMut", "Ref">>[r],
           words |-> ref_words(Contains(td.wellknown_traits, "Unsized")),
           members |-> ref_members(td),
           conversions |-> ref_conversions(<<"RefMut", "Ref">>[r],
                                           Contains(td.wellknown_traits, "Unsized"))]>>
        \o ref_method_decls(td, <<"RefMut", "Ref">>[r])
        \o <<InitFn("assume_init", <<"RefMut", "Ref">>[r], ref_init_body("assume_init")),
              InitFn("check_init", <<"RefMut", "Ref">>[r], ref_init_body("check_init")),
              InitFn("assume_deinit", <<"RefMut", "Ref">>[r], ref_init_body("assume_deinit")),
              [item |-> "size_of", view |-> <<"RefMut", "Ref">>[r],
               expr |-> SizeExpr("const", <<>>,
                                 ref_size(Contains(td.wellknown_traits, "Unsized")))]>>])

\* CppTypeDefinition::emit_field_specialization
emit_field_specialization(td) ==
    Flatten([f \in 1..3 |->
        <<[item |-> "class", view |-> <<"FieldOwned", "FieldRef", "FieldRefMut">>[f],
           words |-> 0, members |-> <<>>, conversions |-> <<>>]>>
        \o Flatten([k \in 1..Len(td.methods) |->
            IF IsRef(td.methods[k].kind)
               /\ ~skip_decl(td.methods[k].kind, <<"FieldOwned", "FieldRef", "FieldRefMut">>[f])
            THEN <<Decl(<<"FieldOwned", "FieldRef", "FieldRefMut">>[f], td.methods[k].name,
                        input_defs(skip1(td.methods[k].sig.inputs)))>>
            ELSE <<>>])])

\* the data member of the owning class
storage(td) ==
    CASE td.layout = "StackAllocated" ->
            [kind |-> "array", size |-> td.size, align |-> td.align]
      [] td.layout = "HeapAllocated" -> [kind |-> "pointer", size |-> 0, align |-> 0]
      [] OTHER -> [kind |-> "none", size |-> 0, align |-> 0]

\* the copy_data statement of the layout
copy_data_text(td) ==
    CASE td.layout = "StackAllocated" ->
            [op |-> "assign", len |-> SizeExpr("none", <<>>, 0)]
      [] td.layout = "HeapAllocated" ->
            [op |-> "memcpy", len |-> SizeExpr("call", <<"T", "size_fn">>, 0)]
      [] OTHER -> [op |-> "none", len |-> SizeExpr("none", <<>>, 0)]

\* the special member functions the owning class declares
lifecycle(td) ==
    CASE td.layout = "OnlyByRef" -> <<"deleted_default_ctor">>
      [] Contains(td.wellknown_traits, "Copy") ->
            <<"default_ctor", "dtor", "copy_ctor", "copy_assign", "move_ctor", "move_assign">>
      [] OTHER ->
            <<"default_ctor", "dtor", "deleted_copy_ctor", "deleted_copy_assign",
              "move_ctor", "move_assign">>

\* variant: the size query of a HeapAllocated type returns a literal
size_of_expr_constant(td) == SizeExpr("const", <<>>, td.size)

\* the expression __zngur_internal_size_of< T > returns
size_of_expr(td) ==
    IF td.layout = "StackAllocated"
    THEN SizeExpr("const", <<>>, td.size)
    ELSE SizeExpr("call", <<"T", "size_fn">>, 0)

\* the specializations written after the owning class, unless OnlyByRef
owner_specializations(td) ==
    IF td.layout = "OnlyByRef" THEN <<>>
    ELSE <<[item |-> "size_of", view |-> "owner", expr |-> size_of_expr(td)]>>
         \o (IF Contains(td.wellknown_traits, "Copy")
             THEN <<InitFn("check_init", "owner", <<>>),
                    InitFn("assume_init", "owner", <<>>),
                    InitFn("assume_deinit", "owner", <<>>)>>
             ELSE <<InitFn("check_init", "owner", <<"if (!t.drop_flag) abort">>),
                    InitFn("assume_init", "owner", <<"t.drop_flag = true">>),
                    InitFn("assume_deinit", "owner",
                           <<"check_init(t)", "t.drop_flag = false">>)>>)

\* the forward declarations of the specializations, written for every type
owner_forward_decls ==
    [k \in 1..4 |->
        [item |-> "spec_decl", view |-> "owner",
         fn |-> <<"check_init", "assume_init", "assume_deinit", "size_of">>[k]]]

\* CppTypeDefinition::emit
td_emit(td) ==
    owner_forward_decls
    \o <<[item |-> "class", view |-> "owner", storage |-> storage(td),
          drop_flag |-> (td.layout # "OnlyByRef"
                           /\ ~Contains(td.wellknown_traits, "Copy")),
          members |-> lifecycle(td), copy_data |-> copy_data_text(td)]>>
    \o Flatten([k \in 1..Len(td.methods) |->
          emit_cpp_header(td.methods[k].sig, td.methods[k].name)
          \o (IF td.methods[k].kind # "Static"
              THEN <<Decl("owner", td.methods[k].name,
                          dyn_api_def(saturating_sub1(Len(td.methods[k].sig.inputs)))
                              \o input_defs(skip1(td.methods[k].sig.inputs)))>>
              ELSE <<>>)])
    \o [k \in 1..Len(td.constructors) |->
          Decl("constructor", "new", input_defs(td.constructors[k].inputs))]
    \o owner_specializations(td)
    \o emit_ref_specialization(td)
    \o emit_field_specialization(td)

\* the definitions emit_cpp_fn_defs writes for one method
method_defs(td, method, panic) ==
    emit_cpp_def(method.sig, "static", method.name, panic)
    \o (IF IsRef(method.kind)
        THEN [f \in 1..Len(field_kinds(method.kind)) |->
                 Def(field_kinds(method.kind)[f], method.name,
                     input_defs(skip1(method.sig.inputs)),
                     method.sig.rust_link_name, <<"return static">>,
                     <<"*this">> \o [n \in 1..(Len(method.sig.inputs) - 1) |-> "move(i)"])]
             \o [r \in 1..Len(ref_kinds(method.kind)) |->
                 Def(ref_kinds(method.kind)[r], method.name,
                     dyn_api_def(saturating_sub1(Len(method.sig.inputs)))
                         \o input_defs(skip1(method.sig.inputs)),
                     method.sig.rust_link_name, <<"return static">>,
                     <<"api", "*this">>
                         \o [n \in 1..(Len(method.sig.inputs) - 1) |-> "move(i)"])]
        ELSE <<>>)
    \o (IF ~Contains(td.wellknown_traits, "Unsized") /\ td.layout # "OnlyByRef"
           /\ method.kind # "Static"
        THEN <<Def("owner", method.name,
                   dyn_api_def(saturating_sub1(Len(method.sig.inputs)))
                       \o input_defs(skip1(method.sig.inputs)),
                   method.sig.rust_link_name, <<"return static">>,
                   <<"api", IF method.kind = "Move" THEN "move(*this)" ELSE "*this">>
                       \o [n \in 1..(Len(method.sig.inputs) - 1) |-> "move(i)"])>>
        ELSE <<>>)

\* CppTypeDefinition::emit_cpp_fn_defs
emit_cpp_fn_defs(td, traits, panic) ==
    [k \in 1..Len(td.constructors) |->
        Def("constructor", "new",
            dyn_api_def(saturating_sub1(Len(td.constructors[k].inputs)))
                \o input_defs(td.constructors[k].inputs),
            td.constructors[k].rust_link_name,
            <<"assume_init(*this)", "link", "deinits">>, <<>>)]
    \o make_box(td, traits)
    \o Flatten([k \in 1..Len(td.methods) |-> method_defs(td, td.methods[k], panic)])

(* ---- CppFile::emit_h_file, in the order of its loops ---- *)
Types == file.type_defs

Write(items, next) ==
    /\ text' = text \o items
    /\ pc' = next
    /\ UNCHANGED <<file, cpp_text, rtvars, initvars, parsevars, projvars>>

InitGen ==
    /\ RtIdle /\ InitIdle /\ ParseIdle /\ ProjIdle
    /\ file \in FileModels
    /\ pc = "prelude"
    /\ text = <<>>
    /\ cpp_text = <<>>

\* the primary templates of the customization points: assume_init,
\* assume_deinit and size_of are declared only, move_to_rust and
\* move_from_rust copy size_of<T>() bytes, check_init is defined empty
prelude_templates ==
    <<[item |-> "spec_decl", view |-> "primary", fn |-> "assume_init"],
      [item |-> "spec_decl", view |-> "primary", fn |-> "assume_deinit"],
      [item |-> "spec_decl", view |-> "primary", fn |-> "size_of"],
      [item |-> "template", fn |-> "move_to_rust", body |-> <<"memcpy", "assume_deinit">>,
       len |-> SizeExpr("size_of", <<>>, 0)],
      [item |-> "template", fn |-> "move_from_rust",
       body |-> <<"T t", "assume_init", "memcpy", "return t">>,
       len |-> SizeExpr("size_of", <<>>, 0)],
      InitFn("check_init", "primary", <<>>)>>

\* the names the table is built from: fn_defs, then each type's get_link_names
DynApiNames(f) ==
    [k \in 1..Len(f.fn_defs) |-> f.fn_defs[k].sig.rust_link_name]
    \o Flatten([k \in 1..Len(f.type_defs) |-> get_link_names(f.type_defs[k])])

\* what CppFile::emit_h_file writes for the file f, part by part in the order
\* of its loops; the loops over trait_defs run in the order of the sequence
emit_h_file(f, part) ==
    CASE part = "prelude" ->
            \* includes, the panic symbols, the customization templates
            <<[item |-> "prelude"]>>
            \o (IF f.panic_to_exception
                THEN <<ExternDecl(<<"__zngur_detect_panic">>, "uint8_t", <<>>),
                       ExternDecl(<<"__zngur_take_panic">>, "void", <<>>)>>
                ELSE <<>>)
            \o prelude_templates
      [] part = "extern_c" ->
            \* extern "C" { ... }
            Flatten([k \in 1..Len(f.fn_defs) |-> emit_rust_link_decl(f.fn_defs[k].sig)])
            \o Flatten([k \in 1..Len(f.type_defs) |-> td_emit_rust_links(f.type_defs[k])])
            \o Flatten([k \in 1..Len(f.trait_defs) |->
                          trait_emit_rust_links(f.trait_defs[k])])
      [] part = "dyn_api" ->
            \* class __zngur_dyn_api: the fields, then init
            [k \in 1..Len(DynApiNames(f)) |->
                [item |-> "api_field", name |-> DynApiNames(f)[k]]]
            \o [k \in 1..Len(DynApiNames(f)) |->
                [item |-> "init_resolve", name |-> DynApiNames(f)[k]]]
      [] part = "types" ->
            \* td.ty.emit_header; td.emit of every trait, then of every type
            Flatten([k \in 1..Len(f.trait_defs) |-> trait_emit(f.trait_defs[k])])
            \o Flatten([k \in 1..Len(f.type_defs) |-> td_emit(f.type_defs[k])])
      [] part = "type_fn_defs" ->
            Flatten([k \in 1..Len(f.type_defs) |->
                       emit_cpp_fn_defs(f.type_defs[k], f.trait_defs,
                                        f.panic_to_exception)])
      [] part = "fn_defs" ->
            Flatten([k \in 1..Len(f.fn_defs) |->
                       emit_cpp_def(f.fn_defs[k].sig, "free", f.fn_defs[k].name,
                                    f.panic_to_exception)])

\* variant: emit_h_file goes on when the file has trait definitions
emit_h_file_never_panics(f) == FALSE

\* `if !self.trait_defs.is_empty() { panic!(..) }` after init is written
emit_h_file_panics(f) == f.trait_defs # <<>>

\* CppFile::emit_cpp_file: the include, then emit_cpp of every trait
emit_cpp_file(f) ==
    <<[item |-> "include"]>>
    \o Flatten([k \in 1..Len(f.trait_defs) |-> trait_emit_cpp(f.trait_defs[k])])

\* is_really_needed after emit_cpp_file
is_cpp_needed(f) == f.trait_defs # <<>>

EmitPrelude ==
    /\ pc = "prelude"
    /\ Write(emit_h_file(file, "prelude"), "extern_c")

EmitExternC ==
    /\ pc = "extern_c"
    /\ Write(emit_h_file(file, "extern_c"), "dyn_api")

\* the table class, and the panic on trait_defs that ends the render
EmitDynApi ==
    /\ pc = "dyn_api"
    /\ Write(emit_h_file(file, "dyn_api"),
             IF emit_h_file_panics(file) THEN "panicked" ELSE "types")

EmitTypes ==
    /\ pc = "types"
    /\ Write(emit_h_file(file, "types"), "type_fn_defs")

EmitTypeFnDefs ==
    /\ pc = "type_fn_defs"
    /\ Write(emit_h_file(file, "type_fn_defs"), "fn_defs")

EmitFnDefs ==
    /\ pc = "fn_defs"
    /\ Write(emit_h_file(file, "fn_defs"), "cpp_file")

\* self.emit_cpp_file(&mut cpp_file, &mut is_cpp_needed)
EmitCppFile ==
    /\ pc = "cpp_file"
    /\ cpp_text' = emit_cpp_file(file)
    /\ pc' = "remove_no_except"
    /\ UNCHANGED <<file, text, rtvars, initvars, parsevars, projvars>>

\* State::remove_no_except_in_panic: text.replace(" noexcept ", " ")
remove_no_except_in_panic(txt, panic) ==
    IF panic
    THEN [k \in 1..Len(txt) |->
            IF "noexcept" \in DOMAIN txt[k] THEN [txt[k] EXCEPT !.noexcept = FALSE]
            ELSE txt[k]]
    ELSE txt

\* h_file.remove_no_except_in_panic(), the last statement of CppFile::render
\* before it returns
RemoveNoExcept ==
    /\ pc = "remove_no_except"
    /\ text' = remove_no_except_in_panic(text, file.panic_to_exception)
    /\ pc' = "done"
    /\ UNCHANGED <<file, cpp_text, rtvars, initvars, parsevars, projvars>>

NextGen ==
    \/ EmitPrelude
    \/ EmitExternC
    \/ EmitDynApi
    \/ EmitTypes
    \/ EmitTypeFnDefs
    \/ EmitFnDefs
    \/ EmitCppFile
    \/ RemoveNoExcept

SpecGen == InitGen /\ [][NextGen]_vars

\* CppFile::render as a function of the file: a panic, or the header text and
\* the source text if one is needed (is_cpp_needed.then_some(cpp_file.text))
render(f) ==
    IF emit_h_file_panics(f)
    THEN [panicked |-> TRUE, h |-> <<>>, cpp |-> <<>>]
    ELSE [panicked |-> FALSE,
          h |-> remove_no_except_in_panic(
                    emit_h_file(f, "prelude") \o emit_h_file(f, "extern_c")
                    \o emit_h_file(f, "dyn_api") \o emit_h_file(f, "types")
                    \o emit_h_file(f, "type_fn_defs") \o emit_h_file(f, "fn_defs"),
                    f.panic_to_exception),
          cpp |-> IF is_cpp_needed(f) THEN <<emit_cpp_file(f)>> ELSE <<>>]

(***************************************************************************)
(* The emitted __zngur_dyn_api::init, run against a loaded library.        *)
(***************************************************************************)
MaxMissing == 2   \* symbols of the table the library may lack
NThreads == 2     \* threads of the host program that run call sites
MaxCalls == 2     \* call sites a thread runs: 0..MaxCalls

Threads == 1..NThreads

Range(seq) == {seq[k] : k \in 1..Len(seq)}

\* the file models that differ in the table they get (no trait_defs: only
\* then is a table written at all)
TableFiles ==
    { CppFile(l, wk, ks, c, f, <<>>, FALSE, 0) :
        l \in {"StackAllocated", "HeapAllocated"}, wk \in SUBSET {"Debug", "Copy"},
        ks \in SUBSET {"Static", "Ref(Not)", "Ref(Mut)", "Move"},
        c \in BOOLEAN, f \in BOOLEAN }

Libraries(f) ==
    { Range(DynApiNames(f)) \ miss :
        miss \in {m \in SUBSET Range(DynApiNames(f)) : Cardinality(m) <= MaxMissing} }

InitInit ==
    /\ RtIdle /\ ParseIdle /\ ProjIdle
    /\ file \in TableFiles /\ pc = "idle" /\ text = <<>> /\ cpp_text = <<>>
    /\ lib \in Libraries(file)
    /\ api = {} /\ ipc = 1 /\ ret = "running" /\ error_message = <<>>
    /\ calls = [t \in Threads |-> 0]

\* variant: the field is assigned the null handle before the failure returns
write_link_name_assigns_null(fields, link_name) ==
    [api |-> fields \cup {link_name},
     ret |-> IF link_name \in lib THEN "running" ELSE "false",
     error_message |-> IF link_name \in lib THEN <<>> ELSE link_name]

\* write_link_name: one dlsym block of init
write_link_name(fields, link_name) ==
    IF link_name \notin lib
    THEN [api |-> fields, ret |-> "false", error_message |-> link_name]
    ELSE [api |-> fields \cup {link_name}, ret |-> "running", error_message |-> <<>>]

InitStep ==
    /\ ret = "running" /\ ipc <= Len(DynApiNames(file))
    /\ api' = write_link_name(api, DynApiNames(file)[ipc]).api
    /\ ret' = write_link_name(api, DynApiNames(file)[ipc]).ret
    /\ error_message' = write_link_name(api, DynApiNames(file)[ipc]).error_message
    /\ ipc' = IF ret' = "running" THEN ipc + 1 ELSE ipc
    /\ UNCHANGED <<lib, calls, rtvars, genvars, parsevars, projvars>>

\* return true;
InitReturnTrue ==
    /\ ret = "running" /\ ipc > Len(DynApiNames(file))
    /\ ret' = "true"
    /\ UNCHANGED <<lib, api, ipc, error_message, calls, rtvars, genvars, parsevars, projvars>>

\* variant: a call site resets the field it calls through
call_site_clears_field(fields, link_name) == fields \ {link_name}

\* `api->{rust_link_name}(..)` in an emitted wrapper: the field is read and
\* called; the table after the call
call_site(fields, link_name) == fields

\* a thread of the host program runs one emitted call site after init has
\* returned true
CallSite ==
    \E t \in Threads, n \in api :
        /\ ret = "true" /\ calls[t] < MaxCalls
        /\ api' = call_site(api, n)
        /\ calls' = [calls EXCEPT ![t] = @ + 1]
        /\ UNCHANGED <<lib, ipc, ret, error_message, rtvars, genvars, parsevars, projvars>>

NextInit == InitStep \/ InitReturnTrue \/ CallSite

SpecInit == InitInit /\ [][NextInit]_vars

(***************************************************************************)
(* The parser of type-reference text: impl From<&str> for CppType.         *)
(* A text is the sequence of its characters.                               *)
(***************************************************************************)
MaxLen == 6   \* characters of an input text: 0..MaxLen

\* a letter of a name, white space, and the three characters the parser tests
Chars == {"a", " ", "<", ">", ","}

Texts == UNION {[1..n -> Chars] : n \in 0..MaxLen}

\* str::trim
RECURSIVE trim_start(_)
trim_start(s) == IF s # <<>> /\ Head(s) = " " THEN trim_start(Tail(s)) ELSE s

RECURSIVE trim_end(_)
trim_end(s) ==
    IF s # <<>> /\ s[Len(s)] = " " THEN trim_end(SubSeq(s, 1, Len(s) - 1)) ELSE s

trim(s) == trim_end(trim_start(s))

\* str::split_once('<'): the index of the first '<', 0 for None
split_once(s) ==
    IF \E i \in 1..Len(s) : s[i] = "<"
    THEN CHOOSE i \in 1..Len(s) : s[i] = "<" /\ \A j \in 1..(i - 1) : s[j] # "<"
    ELSE 0

\* variant: every comma ends a part
ends_part_at_any_depth(c, parentheses_count) == c = ","

\* the first match arm of split_string: `',' if parentheses_count == 0`
ends_part(c, parentheses_count) == c = "," /\ parentheses_count = 0

\* the loop of split_string over the characters, and the push after it
RECURSIVE split_string_loop(_, _, _, _)
split_string_loop(rest, parts, current_part, parentheses_count) ==
    IF rest = <<>>
    THEN IF current_part # <<>> THEN Append(parts, current_part) ELSE parts
    ELSE IF ends_part(Head(rest), parentheses_count)
         THEN split_string_loop(Tail(rest), Append(parts, current_part), <<>>,
                                parentheses_count)
    ELSE IF Head(rest) = "<"
         THEN split_string_loop(Tail(rest), parts, Append(current_part, Head(rest)),
                                parentheses_count + 1)
    ELSE IF Head(rest) = ">"
         THEN split_string_loop(Tail(rest), parts, Append(current_part, Head(rest)),
                                parentheses_count - 1)
    ELSE split_string_loop(Tail(rest), parts, Append(current_part, Head(rest)),
                           parentheses_count)

split_string(s) == split_string_loop(s, <<>>, <<>>, 0)

\* impl From<&str> for CppPath: trim, then split at "::" (no text of Texts
\* has a ':', so the path is one segment)
CppPath_from(value) == <<trim(value)>>

\* the panic of `strip_suffix('>').unwrap()`
Panicked == [ok |-> FALSE, path |-> <<>>, generic_args |-> <<>>]

\* impl From<&str> for CppType
RECURSIVE CppType_from(_)
CppType_from(value) ==
    LET v == trim(value)
        p == split_once(v)
        generics == SubSeq(v, p + 1, Len(v))
        args == [k \in 1..Len(split_string(SubSeq(generics, 1, Len(generics) - 1))) |->
                    CppType_from(split_string(SubSeq(generics, 1, Len(generics) - 1))[k])]
    IN  IF p = 0
        THEN [ok |-> TRUE, path |-> CppPath_from(v), generic_args |-> <<>>]
        ELSE IF generics = <<>> \/ generics[Len(generics)] # ">"
        THEN Panicked
        ELSE IF \E k \in 1..Len(args) : ~args[k].ok
        THEN Panicked
        ELSE [ok |-> TRUE, path |-> CppPath_from(SubSeq(v, 1, p - 1)),
              generic_args |-> args]

InitParse ==
    /\ RtIdle /\ GenIdle /\ InitIdle /\ ProjIdle
    /\ input \in Texts
    /\ parsed = <<>>

Parse ==
    /\ parsed = <<>>
    /\ parsed' = <<CppType_from(input)>>
    /\ UNCHANGED <<input, rtvars, genvars, initvars, projvars>>

NextParse == Parse

SpecParse == InitParse /\ [][NextParse]_vars

(***************************************************************************)
(* Field projections.  The members of an owner class, of a Ref / RefMut    *)
(* specialization and of a Field* specialization that stand for the fields *)
(* are empty [[no_unique_address]] objects of distinct types: each lies at *)
(* the address of the object it is a member of, whatever the depth.        *)
(***************************************************************************)
MaxChain == 2    \* fields on a chain of projections: 1..MaxChain
MaxOffset == 2   \* ZngurField.offset: 0..MaxOffset
MaxAddr == 2     \* addresses of objects: 8, 16, .., 8 * (MaxAddr + 1)

Addrs == {8 * k : k \in 1..(MaxAddr + 1)}

FieldKinds == {"FieldOwned", "FieldRef", "FieldRefMut"}

\* __zngur_internal_data_ptr of an owner at address object: &data[0], the
\* first member, or the pointer alloc_fn returned
data_ptrs(layout, object) ==
    IF layout = "StackAllocated" THEN {object} ELSE Addrs \ {object}

\* proj.object  the address of the owner (FieldOwned) or of the Ref / RefMut
\*              (FieldRef / FieldRefMut) the chain starts at
\* proj.value   the address of the bytes of the value: the owner's data_ptr,
\*              or the word the Ref / RefMut holds
\* proj.chain   the offsets of the fields taken so far
\* proj.OFFSET  the template argument of the projection type reached
\* proj.ref     <<>>, or the data word of the reference made from it
InitProj ==
    /\ RtIdle /\ GenIdle /\ InitIdle /\ ParseIdle
    /\ \E kind \in FieldKinds, layout \in Layouts, object \in Addrs :
          \E value \in (IF kind = "FieldOwned" THEN data_ptrs(layout, object)
                         ELSE Addrs \ {object}) :
             proj = [kind |-> kind, layout |-> layout, object |-> object,
                     value |-> value, chain |-> <<>>, OFFSET |-> 0, ref |-> <<>>]

\* the member declared for a field at `offset`: `Field*<ty, {offset}>` in an
\* owner class or a Ref / RefMut, `{field_kind}<ty, OFFSET + {offset}>` in a
\* Field* specialization
member_offset(chain, OFFSET, offset) ==
    IF chain = <<>> THEN offset ELSE OFFSET + offset

\* `x.field`: one more field of the chain
ProjectField ==
    \E offset \in 0..MaxOffset :
        /\ proj.ref = <<>> /\ Len(proj.chain) < MaxChain
        /\ proj' = [proj EXCEPT !.chain = Append(@, offset),
                                !.OFFSET = member_offset(proj.chain, @, offset)]
        /\ UNCHANGED <<rtvars, genvars, initvars, parsevars>>

\* Ref / RefMut(const FieldOwned<T, OFFSET>& f):
\*     data = reinterpret_cast<size_t>(&f) + OFFSET;
\* Ref / RefMut(const FieldRef / FieldRefMut<T, OFFSET>& f):
\*     data = *reinterpret_cast<const size_t*>(&f) + OFFSET;
\* &f is proj.object, and the word there, of a Ref / RefMut, is its data
ref_from_field(p) ==
    IF p.kind = "FieldOwned" THEN p.object + p.OFFSET ELSE p.value + p.OFFSET

ConvertToRef ==
    /\ proj.ref = <<>> /\ proj.chain # <<>>
    /\ proj' = [proj EXCEPT !.ref = <<ref_from_field(proj)>>]
    /\ UNCHANGED <<rtvars, genvars, initvars, parsevars>>

NextProj == ProjectField \/ ConvertToRef

SpecField == InitProj /\ [][NextProj]_vars

(***************************************************************************)
(* Properties of the emitted owning wrapper (specification Spec).          *)
(***************************************************************************)
IsMove == last.op \in {"move_ctor", "move_assign"}

Flag(o) == objs[o].drop_flag
PreFlag(o) == last.pre[o].drop_flag

\* C1, as stated: for a non-Copy wrapper, after a move-construction or a
\* move-assignment from a source to a distinct destination the source's flag
\* is false and the destination is initialized.
C1_MoveLeavesDestinationInitialized ==
    (~T.is_copy /\ IsMove /\ last.dst # last.src)
        => (~Flag(last.src) /\ Flag(last.dst))

\* C1, amended: after such a move the source's flag is false and the
\* destination's flag is the flag the source had before the move, so the
\* destination is initialized exactly when the source was.
C1_MoveTransfersFlag ==
    (~T.is_copy /\ IsMove /\ last.dst # last.src)
        => (~Flag(last.src) /\ Flag(last.dst) = PreFlag(last.src))

C1_Witness ==
    /\ ~T.is_copy /\ last.op = "move_assign" /\ last.dst # last.src
    /\ PreFlag(last.src) /\ PreFlag(last.dst)
    /\ Flag(last.dst) /\ ~Flag(last.src)

\* C2: the destructor of a non-Copy wrapper calls the drop function exactly
\* when the flag is true at destruction, and frees the storage after that
\* decision (HeapAllocated: one call of free_fn, last; StackAllocated: the
\* inline storage ends with the object).  A default-constructed, moved-from
\* or marshaled-away value has a false flag, so destructing it drops nothing.
C2_DropIffFlag ==
    /\ (~T.is_copy /\ last.op = "dtor") =>
          /\ last.ev = (IF PreFlag(last.dst) THEN <<"drop">> ELSE <<>>)
                       \o (IF T.layout = "HeapAllocated" THEN <<"free">> ELSE <<>>)
          /\ ~objs[last.dst].alive
    /\ (~T.is_copy /\ last.op = "default_ctor") => ~Flag(last.dst)
    /\ (~T.is_copy /\ IsMove /\ last.dst # last.src) => ~Flag(last.src)
    /\ (~T.is_copy /\ last.op = "move_to_rust" /\ ~aborted) => ~Flag(last.src)

C2_Witness ==
    /\ ~T.is_copy /\ last.op = "dtor" /\ T.layout = "HeapAllocated"
    /\ PreFlag(last.dst) /\ last.ev = <<"drop", "free">>

\* the operand(s) whose initialization the last operation requires
Required ==
    CASE last.op \in {"check_init", "assume_deinit"} -> {last.dst}
      [] last.op \in {"move_to_rust", "borrow"} -> {last.src}
      [] last.op \in {"cpp_def", "constructor"} ->
            {last.ins[k] : k \in 1..Len(last.ins)}
      [] OTHER -> {}

\* C3: using a non-Copy value whose flag is false in an operation that
\* requires initialization ends in the fatal abort; the boundary symbol is
\* never invoked and the operation does not return normally.
C3_UninitializedUseAborts ==
    (~T.is_copy /\ \E o \in Required : ~PreFlag(o))
        => (aborted /\ \A k \in 1..Len(last.ev) : last.ev[k] # "link")

\* C4: a Copy type has no flag member, its check_init / assume_init /
\* assume_deinit change nothing, and its four copy and move operations leave
\* the destination with the source's bytes and the source as it was; a
\* non-Copy owning type always has the flag member.
C4_CopyTypesHaveNoFlag ==
    /\ \A o \in Obj : objs[o].alive =>
          (("drop_flag" \in DOMAIN objs[o]) <=> ~T.is_copy)
    /\ (T.is_copy /\ last.op \in {"check_init", "assume_init", "assume_deinit"})
          => (objs = last.pre /\ slot = last.preslot /\ ~aborted /\ last.ev = <<>>)
    /\ (T.is_copy /\ last.op \in {"copy_ctor", "copy_assign", "move_ctor", "move_assign"})
          => /\ objs[last.dst].data = last.pre[last.src].data
             /\ objs[last.src] = last.pre[last.src]

C4_Witness ==
    /\ T.is_copy /\ last.op = "move_assign" /\ last.dst # last.src
    /\ last.pre[last.dst].data # last.pre[last.src].data
    /\ objs[last.dst].data = objs[last.src].data

\* C5: marshaling an initialized value to the slot and unmarshaling the slot
\* gives a value with the original's bytes that is initialized, and leaves the
\* original uninitialized.
C5_RoundTrip ==
    (last.op = "move_from_rust" /\ last.marshal.from # 0)
        => /\ objs[last.dst].data = last.marshal.data
           /\ ~T.is_copy => (Flag(last.dst) /\ ~Flag(last.marshal.from))

C5_Witness ==
    /\ last.op = "move_from_rust" /\ last.marshal.from # 0 /\ ~T.is_copy
    /\ objs[last.dst].data = last.marshal.data
    /\ Flag(last.dst) /\ ~Flag(last.marshal.from)

(***************************************************************************)
(* Properties of __zngur_dyn_api::init (specification SpecInit).           *)
(***************************************************************************)
Names == DynApiNames(file)

\* C6: init resolves the symbols in declaration order; it returns true
\* exactly when every symbol resolves, and then every field is populated;
\* otherwise it returns false at the first unresolved symbol, the message
\* names that symbol, the fields before it are populated and no field at or
\* after it is written.
C6_InitFirstUnresolved ==
    /\ ret = "true" =>
          /\ \A k \in 1..Len(Names) : Names[k] \in lib
          /\ api = Range(Names)
    /\ ret = "false" =>
          \E k \in 1..Len(Names) :
              /\ Names[k] \notin lib
              /\ \A j \in 1..(k - 1) : Names[j] \in lib
              /\ error_message = Names[k]
              /\ api = {Names[j] : j \in 1..(k - 1)}
    /\ ret = "running" => api = {Names[j] : j \in 1..(ipc - 1)}

C6_Witness ==
    /\ ret = "false" /\ api # {}
    /\ Cardinality(Range(Names) \ lib) >= 2
    /\ \E k \in 1..Len(Names) : Names[k] \notin lib /\ Names[k] # error_message

(***************************************************************************)
(* Properties of the generated text (specification SpecGen).               *)
(***************************************************************************)
Items(kind) == {k \in 1..Len(text) : text[k].item = kind}

\* C7: every generated call site that invokes a boundary symbol (function and
\* method wrappers, their projections on the reference and field views,
\* constructors) has the dispatch table as its first parameter and makes the
\* invocation through it: `api->link(..)`, or the table handed on to the
\* wrapper it delegates to.
C7_CallSitesUseTable ==
    \A k \in Items("def") :
        /\ text[k].params # <<>>
        /\ text[k].params[1] = <<"__zngur_dyn_api* api">>
        /\ \/ Contains(text[k].body, "api->link")
           \/ /\ Contains(text[k].body, "return static")
              /\ text[k].args # <<>> /\ text[k].args[1] = "api"

TableWritten == pc \notin {"idle", "prelude", "extern_c", "dyn_api"}

PanicSymbols == {<<"__zngur_detect_panic">>, <<"__zngur_take_panic">>}

\* C8: the table has exactly one field for each boundary symbol declared for
\* functions, methods, constructors, heap functions, drop and debug functions
\* and trait registration, and init resolves exactly the fields.
C8_TableCoversDeclaredSymbols ==
    TableWritten =>
        /\ \A j, k \in Items("api_field") : text[j].name = text[k].name => j = k
        /\ {text[k].name : k \in Items("api_field")}
              = {text[k].name : k \in Items("link_decl")} \ PanicSymbols
        /\ {text[k].name : k \in Items("api_field")}
              = {text[k].name : k \in Items("init_resolve")}

SharedViews == {"Ref", "FieldRef"}
Views == {"Ref", "RefMut", "FieldOwned", "FieldRef", "FieldRefMut"}

Declared(view, m) ==
    \E k \in Items("decl") : text[k].view = view /\ text[k].method = m

Defined(view, m) ==
    \E k \in Items("def") : text[k].view = view /\ text[k].method = m

HasMethod(kind) ==
    \E t \in 1..Len(Types) : \E k \in 1..Len(Types[t].methods) :
        Types[t].methods[k].kind = kind

\* C9: a method with a Ref(Mut) receiver is neither declared nor defined on
\* the Ref view or the FieldRef view of its type.
C9_NoMutMethodOnSharedViews ==
    \A v \in SharedViews : ~Declared(v, "Ref(Mut)") /\ ~Defined(v, "Ref(Mut)")

C9_Witness ==
    /\ pc = "done" /\ HasMethod("Ref(Mut)")
    /\ Declared("RefMut", "Ref(Mut)") /\ Defined("RefMut", "Ref(Mut)")
    /\ Defined("FieldRefMut", "Ref(Mut)") /\ Defined("FieldOwned", "Ref(Mut)")
    /\ ~Declared("Ref", "Ref(Mut)") /\ ~Defined("FieldRef", "Ref(Mut)")

\* C10: a Ref(Not) method is exposed on both reference views and on the three
\* field views; on every view a method is declared iff it is defined; and
\* every exposed form has the parameter list of the owning type's member form.
C10_SharedMethodOnEveryView ==
    pc = "done" =>
        /\ HasMethod("Ref(Not)") =>
              \A v \in Views : Declared(v, "Ref(Not)") /\ Defined(v, "Ref(Not)")
        /\ \A v \in Views : \A m \in Range(Receivers) : Declared(v, m) <=> Defined(v, m)
        /\ \A k \in Items("decl") \cup Items("def") :
              text[k].view \in Views =>
                  \E o \in Items("decl") :
                      /\ text[o].view = "owner" /\ text[o].method = text[k].method
                      /\ text[o].params = text[k].params

RefViews == {"Ref", "RefMut"}
FieldViews == {"FieldOwned", "FieldRef", "FieldRefMut"}
InitFns == {"check_init", "assume_init", "assume_deinit"}

TypesWritten == pc \in {"type_fn_defs", "fn_defs", "cpp_file", "remove_no_except", "done"}

Specializations(fn, v) ==
    {k \in Items("init_fn") : text[k].fn = fn /\ text[k].view = v}

\* the definitions that can run when customization point fn is applied to a
\* value of view v: the view's specialization if one was written, else the
\* primary template's definition, if it has one
Resolved(fn, v) ==
    IF Specializations(fn, v) # {} THEN Specializations(fn, v)
    ELSE Specializations(fn, "primary")

IsCopyType == Contains(Types[1].wellknown_traits, "Copy")
IsUnsized == Contains(Types[1].wellknown_traits, "Unsized")

\* C11: the reference views and the field-projection views of a type, Copy or
\* not, have no destructor and no member that calls the drop function; the
\* check_init, assume_init and assume_deinit of a reference view are
\* specializations without a statement, and for a field-projection view
\* check_init is the primary template, without a statement, and no
\* definition of assume_init or assume_deinit with a statement applies: none
\* of them reads or writes a flag or any other state.
C11_ViewsOutsideFlagProtocol ==
    TypesWritten =>
        /\ \A k \in Items("class") :
              text[k].view \in Views => ~Contains(text[k].members, "dtor")
        /\ \A k \in Items("def") :
              text[k].view \in Views => ~Contains(text[k].body, "drop_in_place")
        /\ \A v \in RefViews : \A fn \in InitFns :
              /\ Specializations(fn, v) # {}
              /\ \A k \in Specializations(fn, v) : text[k].body = <<>>
        /\ \A v \in FieldViews :
              /\ Resolved("check_init", v) # {}
              /\ \A fn \in InitFns : \A k \in Resolved(fn, v) : text[k].body = <<>>

C11_Witness ==
    /\ pc = "done" /\ ~IsCopyType /\ Types[1].layout = "HeapAllocated"
    /\ \E k \in Specializations("check_init", "owner") : text[k].body # <<>>
    /\ \E k \in Specializations("check_init", "Ref") : text[k].body = <<>>
    /\ \E k \in Items("class") : text[k].view = "FieldOwned"

LinkCalls == {"api->link", "link"}

\* C12: with panic_to_exception every generated definition that calls a
\* boundary symbol runs the panic handler (test __zngur_detect_panic, then
\* __zngur_take_panic and throw) after the call; without it no definition
\* contains the handler.
C12_PanicTestedAfterEveryCall ==
    \A k \in Items("def") :
        (\E i \in 1..Len(text[k].body) : text[k].body[i] \in LinkCalls) =>
            IF file.panic_to_exception
            THEN \A i \in 1..Len(text[k].body) :
                    text[k].body[i] \in LinkCalls =>
                        \E j \in (i + 1)..Len(text[k].body) :
                            text[k].body[j] = "panic_handler"
            ELSE ~Contains(text[k].body, "panic_handler")

\* the signatures of the file that have a boundary symbol
Signatures ==
    {file.fn_defs[k].sig : k \in 1..Len(file.fn_defs)}
    \cup {Types[1].methods[k].sig : k \in 1..Len(Types[1].methods)}
    \cup Range(Types[1].constructors)

TraitSymbols == {<<"trait", "link_name">>, <<"trait", "link_name_ref">>}

ByteInputsAndOutput(d) ==
    /\ d.ret = "void"
    /\ \A i \in 1..Len(d.params) : d.params[i] = "uint8_t*"
    /\ d.noexcept

\* C13: in the rendered header the declaration of the boundary symbol of a
\* signature with n inputs has n + 1 uint8_t* parameters, returns void and is
\* noexcept, for functions, methods and constructors; the declaration of a
\* trait registration symbol has the same form.
C13_BoundarySymbolShape ==
    /\ pc = "done" =>
          \A g \in Signatures :
              \E k \in Items("link_decl") :
                  /\ text[k].name = g.rust_link_name
                  /\ Len(text[k].params) = Len(g.inputs) + 1
                  /\ ByteInputsAndOutput(text[k])
    /\ \A k \in Items("link_decl") :
          text[k].name \in TraitSymbols => ByteInputsAndOutput(text[k])

OwnerClasses == {k \in Items("class") : text[k].view = "owner"}

Constructing == {"default_ctor", "copy_ctor", "move_ctor"}

\* C16: for an OnlyByRef type no constructor is declared or defined, whatever
\* the definition's constructors are, the class has no destructor, no data
\* member and no drop_flag, and no size_of or check_init / assume_init /
\* assume_deinit specialization is defined for the type.
C16_OnlyByRefHasNoOwner ==
    (TypesWritten /\ Types[1].layout = "OnlyByRef") =>
        /\ \A k \in Items("decl") \cup Items("def") : text[k].view # "constructor"
        /\ \A k \in OwnerClasses :
              /\ \A i \in 1..Len(text[k].members) :
                    text[k].members[i] \notin Constructing \cup {"dtor"}
              /\ text[k].storage.kind = "none"
              /\ ~text[k].drop_flag
        /\ \A k \in Items("size_of") \cup Items("init_fn") : text[k].view # "owner"

\* <<from, to>> for every converting constructor of a view from another view
Conversions ==
    UNION { {<<text[k].conversions[i], text[k].view>> :
                i \in 1..Len(text[k].conversions)} :
            k \in {j \in Items("class") : text[j].view \in Views} }

ListedConversions ==
    {<<"RefMut", "Ref">>,
     <<"FieldOwned", "Ref">>, <<"FieldOwned", "RefMut">>,
     <<"FieldRefMut", "Ref">>, <<"FieldRefMut", "RefMut">>,
     <<"FieldRef", "Ref">>}

\* C17, as stated: the converting constructors between the views of a type
\* are exactly RefMut -> Ref, FieldOwned and FieldRefMut -> Ref and RefMut,
\* FieldRef -> Ref.
C17_ConversionsExactlyListed ==
    TypesWritten => Conversions = ListedConversions

\* C17, amended: for a type that is not Unsized the converting constructors
\* between its views are exactly the listed six; for an Unsized type the only
\* one is RefMut -> Ref.  In both cases none gives a RefMut from a Ref or a
\* FieldRef, and only Ref and RefMut are ever the target: no owning value and
\* no field projection is made from a view.
C17_ConversionsBySizedness ==
    TypesWritten =>
        /\ Conversions = (IF IsUnsized THEN {<<"RefMut", "Ref">>} ELSE ListedConversions)
        /\ <<"Ref", "RefMut">> \notin Conversions
        /\ <<"FieldRef", "RefMut">> \notin Conversions
        /\ \A c \in Conversions : c[2] \in RefViews

C17_Witness ==
    /\ pc = "done" /\ ~IsUnsized
    /\ <<"FieldRef", "Ref">> \in Conversions /\ <<"FieldOwned", "RefMut">> \in Conversions
    /\ Cardinality(Conversions) = 6

\* C18: the Ref and the RefMut view of a type both store two words and report
\* 16 bytes when the type is Unsized, and both store one word and report 8
\* bytes when it is not.
C18_RefViewSize ==
    TypesWritten =>
        \A v \in RefViews :
            /\ \E k \in Items("class") : text[k].view = v
            /\ \E k \in Items("size_of") : text[k].view = v
            /\ \A k \in Items("class") :
                  text[k].view = v => (text[k].words = 2 <=> IsUnsized)
                                      /\ text[k].words \in {1, 2}
            /\ \A k \in Items("size_of") :
                  text[k].view = v =>
                      /\ text[k].expr.kind = "const"
                      /\ text[k].expr.value = 16 <=> IsUnsized
                      /\ text[k].expr.value \in {8, 16}

C18_Witness ==
    /\ pc = "done" /\ IsUnsized
    /\ \E k \in Items("class") : text[k].view = "RefMut" /\ text[k].words = 2
    /\ \E k \in Items("size_of") : text[k].view = "Ref" /\ text[k].expr.value = 16

\* C19: for each type the Ref and the RefMut view are written, and the
\* FieldOwned, FieldRef and FieldRefMut views are written iff the type is not
\* Unsized.
C19_FieldViewsIffSized ==
    TypesWritten =>
        /\ \A v \in RefViews : \E k \in Items("class") : text[k].view = v
        /\ \A v \in FieldViews :
              (\E k \in Items("class") : text[k].view = v) <=> ~IsUnsized

OwnerSizeOf == {k \in Items("size_of") : text[k].view = "owner"}

Depth(s, i) ==
    Cardinality({j \in 1..i : s[j] = "<"}) - Cardinality({j \in 1..i : s[j] = ">"})

WellBracketed(s) ==
    /\ \A i \in 1..Len(s) : Depth(s, i) >= 0
    /\ Depth(s, Len(s)) = 0

TopCommaAt(s, i) == s[i] = "," /\ Depth(s, i) = 0

TopCommas(s) == Cardinality({i \in 1..Len(s) : TopCommaAt(s, i)})

\* the text between the first '<' and the final '>' of the trimmed input
ArgList ==
    SubSeq(trim(input), split_once(trim(input)) + 1, Len(trim(input)) - 1)

\* the input is `path< list >` with a well-bracketed list
HasArgList ==
    /\ split_once(trim(input)) # 0
    /\ trim(input)[Len(trim(input))] = ">"
    /\ WellBracketed(ArgList)

RECURSIVE Join(_)
Join(parts) ==
    IF parts = <<>> THEN <<>>
    ELSE IF Len(parts) = 1 THEN parts[1]
    ELSE parts[1] \o <<",">> \o Join(Tail(parts))

EndsWithTopComma(s) == s # <<>> /\ TopCommaAt(s, Len(s))

\* C14, as stated: for a well-bracketed argument list the number of generic
\* arguments of the parsed type is the number of its depth-zero commas plus
\* one.
C14_ArgsAreTopCommasPlusOne ==
    (parsed # <<>> /\ HasArgList /\ parsed[1].ok)
        => Len(parsed[1].generic_args) = TopCommas(ArgList) + 1

\* C14, amended: the list is split only at its depth-zero commas: the parts
\* joined by commas give the list back (without a final depth-zero comma),
\* every part is well-bracketed, and the number of generic arguments is the
\* number of depth-zero commas plus one if text follows the last of them, and
\* the number of depth-zero commas if the list is empty or ends with one.
C14_SplitsAtTopCommasOnly ==
    (parsed # <<>> /\ HasArgList) =>
        /\ Len(split_string(ArgList)) =
              TopCommas(ArgList)
              + (IF ArgList = <<>> \/ EndsWithTopComma(ArgList) THEN 0 ELSE 1)
        /\ Join(split_string(ArgList)) =
              (IF EndsWithTopComma(ArgList)
               THEN SubSeq(ArgList, 1, Len(ArgList) - 1) ELSE ArgList)
        /\ \A k \in 1..Len(split_string(ArgList)) :
              WellBracketed(split_string(ArgList)[k])
        /\ parsed[1].ok => Len(parsed[1].generic_args) = Len(split_string(ArgList))

C14_Witness ==
    /\ parsed # <<>> /\ HasArgList /\ parsed[1].ok
    /\ TopCommas(ArgList) = 1
    /\ \E i \in 1..Len(ArgList) : ArgList[i] = "," /\ Depth(ArgList, i) > 0
    /\ Len(parsed[1].generic_args) = 2

\* an argument with no text: nothing but white space between '<' or ',' and
\* the next ',' or '>', an empty list `<>` excepted
EmptyArgument(s) ==
    \E i \in 1..Len(s) : \E j \in (i + 1)..Len(s) :
        /\ s[i] \in {"<", ","} /\ s[j] \in {",", ">"}
        /\ ~(s[i] = "<" /\ s[j] = ">")
        /\ \A k \in (i + 1)..(j - 1) : s[k] = " "

Malformed(s) ==
    \/ Depth(s, Len(s)) > 0
    \/ \E i \in 1..Len(s) : Depth(s, i) < 0
    \/ EmptyArgument(s)

\* C15: parsing a malformed text (a '<' that is never closed, a '>' that
\* closes nothing, an empty generic argument) panics: no CppType is returned.
C15_MalformedTextPanics ==
    (parsed # <<>> /\ Malformed(input)) => ~parsed[1].ok

(***************************************************************************)
(* Ownership of managed values (specifications SpecOwn and Spec).          *)
(***************************************************************************)
\* the wrappers that are initialized and hold the value x
Owners(x) == {o \in Obj : objs[o].alive /\ objs[o].drop_flag /\ objs[o].data = x}

Values == {objs[o].data : o \in {p \in Obj : objs[p].alive}}

\* C26, as stated: over every sequence of default construction, unmarshaling,
\* move construction, move assignment, marshaling and destruction of wrappers
\* of a type that is not Copy, at most one wrapper is initialized for a value
\* and drop_in_place is called at most once for a value.
C26_OneOwnerOneDrop ==
    /\ \A x \in Values : Cardinality(Owners(x)) <= 1
    /\ ~own.twice

\* C26, amended: the same, over the sequences in which no content of a
\* boundary buffer is unmarshaled twice.
C26_OneOwnerOneDropIfUnmarshaledOnce ==
    own.once =>
        /\ \A x \in Values : Cardinality(Owners(x)) <= 1
        /\ ~own.twice

C26_Witness ==
    /\ own.once /\ own.fresh = MaxFresh /\ own.dropped # {}
    /\ last.op = "move_assign" /\ last.dst # last.src
    /\ PreFlag(last.dst) /\ PreFlag(last.src) /\ Flag(last.dst)

\* C27: move-assigning to a wrapper of a type that is not Copy from a
\* different object drops the destination's previous value exactly once,
\* before the bytes are copied, when the destination was initialized (and
\* drops nothing when it was not); a self move-assignment calls nothing and
\* leaves the flag and the bytes as they were.
C27_MoveAssignDropsPreviousValue ==
    (~T.is_copy /\ last.op = "move_assign") =>
        IF last.dst # last.src
        THEN /\ last.ev = (IF PreFlag(last.dst) THEN <<"drop">> ELSE <<>>)
                          \o copy_data_events
             /\ objs[last.dst].data = last.pre[last.src].data
        ELSE last.ev = <<>> /\ objs = last.pre

C27_Witness ==
    /\ ~T.is_copy /\ last.op = "move_assign" /\ last.dst # last.src
    /\ PreFlag(last.dst) /\ last.pre[last.dst].data # last.pre[last.src].data
    /\ Head(last.ev) = "drop"

Count(seq, x) == Cardinality({k \in DOMAIN seq : seq[k] = x})

Inputs == {last.ins[k] : k \in 1..Len(last.ins)}

\* C28: in every emitted function that calls a boundary symbol, the symbol is
\* invoked only with inputs that were checked initialized and are marked
\* deinitialized; after a normal return the output is initialized; when the
\* symbol panics in panic-to-exception mode the output is destructed
\* uninitialized, so drop_in_place is not called, for the output or an input.
C28_WrapperFlagProtocol ==
    (~T.is_copy /\ last.op \in {"cpp_def", "cpp_def_throws", "constructor"}) =>
        /\ Contains(last.ev, "link") =>
              \A i \in Inputs : PreFlag(i) /\ ~Flag(i)
        /\ (last.op # "cpp_def_throws" /\ ~aborted) => Flag(last.dst)
        /\ last.op = "cpp_def_throws" =>
              /\ ~Contains(last.ev, "drop")
              /\ ~aborted => ~objs[last.dst].alive

\* C29: with the HeapAllocated layout every construction (default, copy,
\* move, an unmarshaled or returned value, an emitted constructor) calls
\* alloc_fn exactly once, before anything else; an assignment never calls it;
\* the destructor calls free_fn exactly once.
C29_AllocOncePerConstruction ==
    IsHeap =>
        /\ last.op \in {"default_ctor", "copy_ctor", "move_ctor", "move_from_rust",
                        "cpp_def", "cpp_def_throws", "constructor"} =>
              (Count(last.ev, "alloc") = 1 /\ Head(last.ev) = "alloc")
        /\ last.op \in {"move_assign", "copy_assign"} => Count(last.ev, "alloc") = 0
        /\ last.op = "dtor" => (Count(last.ev, "free") = 1 /\ Count(last.ev, "alloc") = 0)

(***************************************************************************)
(* Field projections (specification SpecField).                            *)
(***************************************************************************)
RECURSIVE Sum(_)
Sum(seq) == IF seq = <<>> THEN 0 ELSE Head(seq) + Sum(Tail(seq))

\* C30: the static offset of a projection is the sum of the offsets of the
\* fields on its chain, and the reference made from a chain holds the address
\* of the outermost value plus that sum, for FieldOwned, FieldRef and
\* FieldRefMut alike.
C30_OffsetsAccumulate ==
    /\ proj.chain # <<>> => proj.OFFSET = Sum(proj.chain)
    /\ proj.ref # <<>> => proj.ref[1] = proj.value + Sum(proj.chain)

(***************************************************************************)
(* The table under calls from several threads (specification SpecInit).    *)
(***************************************************************************)
\* C24: a step that changes the table is a step of init that assigns one
\* field not assigned before, so each field is written at most once and only
\* by init; no call site changes the table; and once init has returned true
\* every field keeps its value under every interleaving of the threads' calls.
C24_TableWrittenOnceByInit ==
    [][/\ api' # api =>
            /\ ret = "running" /\ ipc' = ipc + 1 /\ calls' = calls
            /\ \E n \in Range(DynApiNames(file)) \ api : api' = api \cup {n}
       /\ calls' # calls => api' = api
       /\ ret = "true" => (api' = api /\ ret' = "true")]_vars

C24_Witness ==
    /\ ret = "true" /\ api # {}
    /\ \A t \in Threads : calls[t] > 0

(***************************************************************************)
(* Properties of the render as a whole (specification SpecGen).            *)
(***************************************************************************)
\* CppFile::render has returned or has panicked
Rendered == pc \in {"done", "panicked"}

HasTrait(tr) == Contains(file.trait_defs, tr)

\* C21: rendering a file that has a Normal trait produces the interface class
\* with one pure-virtual method per trait method and, in the source text, one
\* trampoline per trait method that unmarshals every input, calls the virtual
\* method on the interface pointer and marshals the result to the output.
C21_NormalTraitInterfaceAndTrampolines ==
    (Rendered /\ HasTrait("Normal")) =>
        /\ pc = "done"
        /\ \E k \in DOMAIN text :
              /\ text[k].item = "interface"
              /\ Len(text[k].methods) = Len(TraitMethods("Normal"))
              /\ \A j \in DOMAIN text[k].methods :
                    /\ text[k].methods[j].name = TraitMethods("Normal")[j].name
                    /\ text[k].methods[j].pure_virtual
        /\ \A j \in DOMAIN TraitMethods("Normal") :
              \E i \in DOMAIN cpp_text :
                 /\ cpp_text[i].item = "trampoline"
                 /\ cpp_text[i].method = TraitMethods("Normal")[j].name
                 /\ cpp_text[i].body =
                       <<"data_typed = reinterpret_cast(data)">>
                       \o [n \in 1..Len(TraitMethods("Normal")[j].inputs) |->
                              "move_from_rust(i)"]
                       \o <<"oo = data_typed->method", "move_to_rust(o, oo)">>

\* C22: for a type made from a Fn trait the render produces make_box, whose
\* call thunk unmarshals the inputs, invokes the closure exactly once and
\* marshals its result to the output, and whose destructor thunk, the only
\* place the boxed payload is freed, deletes it.
C22_ClosureWrapperCallsOnceFreesOnce ==
    (Rendered /\ HasTrait("Fn") /\ Types[1].from_trait = "Fn") =>
        /\ pc = "done"
        /\ \E k \in DOMAIN text :
              /\ text[k].item = "make_box" /\ text[k].trait = "Fn"
              /\ text[k].call =
                    [n \in 1..Len(TraitMethods("Fn")[1].inputs) |-> "move_from_rust(i)"]
                    \o <<"oo = (*dd)", "move_to_rust(o, oo)">>
              /\ text[k].destructor = <<"delete data">>
              /\ ~Contains(text[k].body, "delete data")

IsPrefix(a, b) == Len(a) <= Len(b) /\ SubSeq(b, 1, Len(a)) = a

\* C23: the output buffers are append-only: at every step of the render the
\* previous content of each buffer is a prefix of its new content, with
\* panic_to_exception on and off.
C23_BuffersAppendOnly ==
    [][IsPrefix(text, text') /\ IsPrefix(cpp_text, cpp_text')]_vars

\* what CppFile::render gave its caller
Outcome ==
    [panicked |-> pc = "panicked",
     h |-> IF pc = "done" THEN text ELSE <<>>,
     cpp |-> IF pc = "done" /\ is_cpp_needed(file) THEN <<cpp_text>> ELSE <<>>]

Reverse(seq) == [k \in 1..Len(seq) |-> seq[Len(seq) + 1 - k]]

\* the same file with its trait_defs map iterated in another order
Reorderings(f) == {f, [f EXCEPT !.trait_defs = Reverse(f.trait_defs)]}

====
